---- MODULE Spec2Model ----
(***************************************************************************)
(* giddyup: a go generate tool that reads the VERSION constant of a        *)
(* directory's version.go, increments one component and rewrites the file. *)
(* Model of src/main.go.                                                   *)
(*                                                                         *)
(* Version strings and literal values are sequences of one-character       *)
(* strings, so that the regular expression, strconv.Atoi, fmt.Sprintf and  *)
(* strings.Trim are computed character by character.  File paths are       *)
(* sequences of path elements.                                             *)
(***************************************************************************)
EXTENDS Integers, Sequences, FiniteSets, TLC

VARIABLES
  fs,        \* the file system: file key -> content
  variable,  \* flag --variable (src/main.go:26)
  lazyInit,  \* flag --init (src/main.go:31)
  inputPaths,\* the positional paths (src/main.go:50-54)
  call,      \* the running or last invocation: [op, mode]
  status,    \* "idle" | "running" | "returned" | "fatal"
  i,         \* position of the range loop in inputPaths (1-based, next to run)
  ret,       \* the error returned by run / printCurrentVersion (Nil: none)
  out,       \* what printCurrentVersion printed to stdout
  trace,     \* file-system events and errors of the invocation, in order
  fs0,       \* the file system as the invocation found it
  prev,      \* summary of the invocation before this one
  calls,     \* number of invocations started
  arg,       \* input of a direct call of getNextVersion / getCurrentVersion
  res        \* its result

vars == <<fs, variable, lazyInit, inputPaths, call, status, i, ret, out,
          trace, fs0, prev, calls, arg, res>>

\* a nil error
Nil == [kind |-> "nil"]

-----------------------------------------------------------------------------
(* Bounds of the model *)

\* longest version string drawn for getNextVersion
MaxLen == 6
\* longest list of input paths
MaxPaths == 2
\* invocations of the tool in one behaviour of Spec
MaxCalls == 2
\* invocations of the tool in one behaviour of SpecSeq
MaxSeqCalls == 12

-----------------------------------------------------------------------------
(* Strings *)

Range(s) == {s[k] : k \in 1..Len(s)}

Digits == <<"0", "1", "2", "3", "4", "5", "6", "7", "8", "9">>

\* \d of Go's regexp (RE2): the ASCII digits
IsDigit(c) == c \in Range(Digits)

DigitValue(c) == (CHOOSE k \in 1..10 : Digits[k] = c) - 1

AllDigits(s) == \A k \in 1..Len(s) : IsDigit(s[k])

\* s[a..b]
Slice(s, a, b) == [k \in 1..(b - a + 1) |-> s[a + k - 1]]

RECURSIVE DecimalValue(_)
DecimalValue(s) ==
  IF s = <<>> THEN 0
  ELSE 10 * DecimalValue(Slice(s, 1, Len(s) - 1)) + DigitValue(s[Len(s)])

\* strconv.Atoi on an unsigned decimal string
Atoi(s) ==
  IF s # <<>> /\ AllDigits(s)
  THEN [val |-> DecimalValue(s), err |-> Nil]
  ELSE [val |-> 0, err |-> [kind |-> "ErrSyntax"]]

RECURSIVE Itoa(_)
\* fmt.Sprintf("%d", n) for n >= 0
Itoa(n) ==
  IF n < 10 THEN <<Digits[n + 1]>>
  ELSE Itoa(n \div 10) \o <<Digits[(n % 10) + 1]>>

Dot == "."
Quote == "\""
\* stands for the backquote character of a raw string literal
Backquote == "BACKQUOTE"

RECURSIVE TrimLeft(_, _)
TrimLeft(s, c) ==
  IF s # <<>> /\ s[1] = c THEN TrimLeft(Tail(s), c) ELSE s

RECURSIVE TrimRight(_, _)
TrimRight(s, c) ==
  IF s # <<>> /\ s[Len(s)] = c THEN TrimRight(Slice(s, 1, Len(s) - 1), c) ELSE s

\* strings.Trim(s, c) for a one-character cutset
Trim(s, c) == TrimRight(TrimLeft(s, c), c)

-----------------------------------------------------------------------------
(* getNextVersion *)

Modes == {"MAJOR", "MINOR", "PATCH"}

NoMatch == <<>>

\* A match of (\d)+\.(\d)\.(\d)+\z starting at position a of s: the submatch
\* list <<whole, group 1, group 2, group 3>>, or NoMatch.  A repeated capture
\* group (\d)+ reports its last iteration, one digit.
MatchFrom(s, a) ==
  LET n == Len(s)
      dots == {d \in (a + 1)..(n - 3) :
                 /\ s[d] = Dot
                 /\ AllDigits(Slice(s, a, d - 1))
                 /\ IsDigit(s[d + 1])
                 /\ s[d + 2] = Dot
                 /\ AllDigits(Slice(s, d + 3, n))}
  IN IF a >= 1 /\ dots # {}
     THEN LET d == CHOOSE d \in dots : TRUE
          IN <<Slice(s, a, n), <<s[d - 1]>>, <<s[d + 1]>>, <<s[n]>>>>
     ELSE NoMatch

\* the same expression without its leading \A: the leftmost match
versionRegExUnanchored(s) ==
  LET starts == {a \in 1..Len(s) : MatchFrom(s, a) # NoMatch}
  IN IF starts = {} THEN NoMatch
     ELSE MatchFrom(s, CHOOSE a \in starts : \A b \in starts : a <= b)

\* versionRegEx.FindAllStringSubmatch(version, -1)[0], NoMatch when
\* versionRegEx.MatchString(version) is false
versionRegEx(s) == MatchFrom(s, 1)

FormatError(version, cause) ==
  [kind |-> "FormatError", version |-> version, cause |-> cause]

getNextVersion(version, mode) ==
  LET matches == versionRegEx(version)
  IN IF matches # NoMatch
     THEN LET major == Atoi(matches[2])
              minor == Atoi(matches[3])
              patch == Atoi(matches[4])
          IN IF major.err # Nil
             THEN [version |-> <<>>, err |-> FormatError(version, major.err)]
             ELSE IF minor.err # Nil
             THEN [version |-> <<>>, err |-> FormatError(version, minor.err)]
             ELSE IF patch.err # Nil
             THEN [version |-> <<>>, err |-> FormatError(version, patch.err)]
             ELSE LET majorVersion == IF mode = "MAJOR" THEN major.val + 1
                                                         ELSE major.val
                      minorVersion == IF mode = "MINOR" THEN minor.val + 1
                                                         ELSE minor.val
                      patchVersion == IF mode = "PATCH" THEN patch.val + 1
                                                         ELSE patch.val
                  IN [version |-> Itoa(majorVersion) \o <<Dot>> \o
                                  Itoa(minorVersion) \o <<Dot>> \o
                                  Itoa(patchVersion),
                      err |-> Nil]
     ELSE [version |-> <<>>, err |-> FormatError(version, Nil)]

-----------------------------------------------------------------------------
(* File paths (path/filepath) and the file system *)

\* filepath.Clean on a relative path without "..": the "." elements go, and
\* the empty path is "."
Clean(p) ==
  LET q == SelectSeq(p, LAMBDA e : e # ".")
  IN IF q = <<>> THEN <<".">> ELSE q

\* filepath.Join(p, name)
Join(p, name) == Clean(p \o <<name>>)

\* filepath.Dir(p): all but the last element, cleaned
Dir(p) == Clean(Slice(p, 1, Len(p) - 1))

\* the file or directory a path names, relative to the working directory
\* (<<>> is the working directory itself)
Key(p) == SelectSeq(p, LAMBDA e : e # ".")

Absent == [kind |-> "absent"]
\* a file that exists and is no Go source text
Garbage == [kind |-> "garbage"]

\* file names in the order ioutil.ReadDir lists them (sorted by name)
NameOrder == <<"README.md", "lib.go", "main.go", "version.go">>

\* strings.HasSuffix(name, ".go")
HasGoSuffix(name) == name \in {"lib.go", "main.go", "version.go"}

DirKeys == {<<>>, <<"sub">>}

FileKeys == {d \o <<n>> : d \in DirKeys, n \in Range(NameOrder)}

\* parser.ParseFile(fset, filename, nil, 0): the syntax tree, or an error when
\* the file is missing or does not parse
ParseFile(fsys, p) ==
  LET k == Key(p)
  IN IF k \in DOMAIN fsys /\ fsys[k].kind = "go"
     THEN [f |-> fsys[k], err |-> Nil]
     ELSE [f |-> Absent, err |-> [kind |-> "ParseError", file |-> p]]

\* ioutil.ReadDir(directory): the names of the directory's entries, sorted
ReadDir(fsys, directory) ==
  LET d == Key(directory)
  IN IF d \in DirKeys
     THEN [files |-> SelectSeq(NameOrder,
                       LAMBDA n : fsys[d \o <<n>>].kind # "absent"),
           err |-> Nil]
     ELSE [files |-> <<>>, err |-> [kind |-> "ReadDirError"]]

-----------------------------------------------------------------------------
(* Go source files as parser.ParseFile sees them *)

BasicLit(value) == [type |-> "BasicLit", Value |-> value]
Ident(name) == [type |-> "Ident", Value |-> name]
ValueSpec(names, values) ==
  [type |-> "ValueSpec", Names |-> names, Values |-> values]
GenDecl(tok, specs) == [type |-> "GenDecl", Tok |-> tok, Specs |-> specs]
FuncDecl(name) == [type |-> "FuncDecl", Tok |-> "func", Specs |-> <<>>]
GoFile(pkg, decls) ==
  [kind |-> "go", header |-> FALSE, pkg |-> pkg, Decls |-> decls]

\* the first basic literal among the values of a spec, trimmed of its quotes
FirstLiteral(values) ==
  LET lits == {k \in 1..Len(values) : values[k].type = "BasicLit"}
  IN IF lits = {} THEN <<>>
     ELSE <<Trim(values[CHOOSE k \in lits : \A m \in lits : k <= m].Value,
                 Quote)>>

\* the values the nested loops of getCurrentVersion return, in visiting order:
\* per const declaration, per value spec, per name equal to the variable
RECURSIVE FoundInSpecs(_, _)
FoundInSpecs(specs, name) ==
  IF specs = <<>> THEN <<>>
  ELSE LET sp == Head(specs)
           here == IF sp.type = "ValueSpec" /\ name \in Range(sp.Names)
                   THEN FirstLiteral(sp.Values) ELSE <<>>
       IN here \o FoundInSpecs(Tail(specs), name)

RECURSIVE FoundInDecls(_, _)
FoundInDecls(decls, name) ==
  IF decls = <<>> THEN <<>>
  ELSE LET d == Head(decls)
           here == IF d.type = "GenDecl" /\ d.Tok = "const"
                   THEN FoundInSpecs(d.Specs, name) ELSE <<>>
       IN here \o FoundInDecls(Tail(decls), name)

NotFoundError(name, file) ==
  [kind |-> "NotFound", variable |-> name, file |-> file]

\* getCurrentVersion with the test of lazyInit inverted
getCurrentVersionInverted(fsys, var, path, lazy) ==
  LET versionFilePath == Join(path, "version.go")
      parsed == ParseFile(fsys, versionFilePath)
  IN IF parsed.err # Nil
     THEN IF ~lazy
          THEN [version |-> <<"1", ".", "0", ".", "0">>, err |-> Nil]
          ELSE [version |-> <<>>, err |-> parsed.err]
     ELSE LET found == FoundInDecls(parsed.f.Decls, var)
          IN IF found # <<>>
             THEN [version |-> found[1], err |-> Nil]
             ELSE [version |-> <<>>,
                   err |-> NotFoundError(var, versionFilePath)]

\* getCurrentVersion initializing also when the constant is not found
getCurrentVersionInitAlways(fsys, var, path, lazy) ==
  LET versionFilePath == Join(path, "version.go")
      parsed == ParseFile(fsys, versionFilePath)
      found == IF parsed.err # Nil THEN <<>>
               ELSE FoundInDecls(parsed.f.Decls, var)
  IN IF found # <<>>
     THEN [version |-> found[1], err |-> Nil]
     ELSE IF lazy
     THEN [version |-> <<"1", ".", "0", ".", "0">>, err |-> Nil]
     ELSE IF parsed.err # Nil
     THEN [version |-> <<>>, err |-> parsed.err]
     ELSE [version |-> <<>>, err |-> NotFoundError(var, versionFilePath)]

\* getCurrentVersion(path, lazyInit) with the flag --variable set to var
getCurrentVersionOf(fsys, var, path, lazy) ==
  LET versionFilePath == Join(path, "version.go")
      parsed == ParseFile(fsys, versionFilePath)
  IN IF parsed.err # Nil
     THEN IF lazy
          THEN [version |-> <<"1", ".", "0", ".", "0">>, err |-> Nil]
          ELSE [version |-> <<>>, err |-> parsed.err]
     ELSE LET found == FoundInDecls(parsed.f.Decls, var)
          IN IF found # <<>>
             THEN [version |-> found[1], err |-> Nil]
             ELSE [version |-> <<>>,
                   err |-> NotFoundError(var, versionFilePath)]

-----------------------------------------------------------------------------
(* Rendering *)

\* writeHeader: the "GENERATED and MANAGED by giddyup" comment line;
\* bytes.Buffer.WriteString never fails
writeHeader == [header |-> TRUE, err |-> Nil]

\* What a file holding generateContent's text
\*   package <pkg>\n\nconst (\n\t<variable> = "<version>"\n)\n
\* is to the parser: one const declaration with one string literal, unless the
\* version breaks out of the literal
generateContent(pkg, version, var, header) ==
  IF Quote \in Range(version)
  THEN Garbage
  ELSE [kind |-> "go", header |-> header, pkg |-> pkg,
        Decls |-> <<GenDecl("const",
                      <<ValueSpec(<<var>>,
                          <<BasicLit(<<Quote>> \o version \o <<Quote>>)>>)>>)>>]

\* parsePackage(directory): every .go entry of the directory is parsed under
\* its bare name, file.Name(), which the parser opens relative to the working
\* directory; log.Fatalf ends the process
parsePackage(fsys, directory) ==
  LET listing == ReadDir(fsys, directory)
      goFiles == SelectSeq(listing.files, HasGoSuffix)
      bad == {k \in 1..Len(goFiles) : ParseFile(fsys, <<goFiles[k]>>).err # Nil}
  IN IF listing.err # Nil THEN [fatal |-> TRUE, pkg |-> ""]
     ELSE IF bad # {} THEN [fatal |-> TRUE, pkg |-> ""]
     ELSE IF goFiles = <<>> THEN [fatal |-> TRUE, pkg |-> ""]
     ELSE [fatal |-> FALSE, pkg |-> ParseFile(fsys, <<goFiles[1]>>).f.pkg]

\* the file run writes for a path: fmt.Sprintf("%s/version.go", filepath.Dir(path))
outputOf(path) == Dir(path) \o <<"version.go">>

-----------------------------------------------------------------------------
(* Inputs *)

Str(s) == [k \in 1..Len(s) |-> s[k]]

V100 == <<"1", ".", "0", ".", "0">>
V129 == <<"1", ".", "2", ".", "9">>
V257 == <<"2", ".", "5", ".", "7">>
V1100 == <<"1", ".", "1", "0", ".", "0">>
V199 == <<"1", ".", "9", ".", "9">>

\* the malformed strings the documentation names: "1.x.0", "1.0", "1.0.0-rc1",
\* " 1.0.0"
Examples ==
  { <<"1", ".", "x", ".", "0">>,
    <<"1", ".", "0">>,
    <<"1", ".", "0", ".", "0", "-", "r", "c", "1">>,
    <<" ", "1", ".", "0", ".", "0">>,
    V100, V129, V257, V1100 }

Alphabet == {"1", "9", ".", "x"}

VersionInputs ==
  Examples \cup UNION {[1..k -> Alphabet] : k \in 0..MaxLen}

\* what generateContent left in a directory of package pkg
Generated(pkg, version) == generateContent(pkg, version, "VERSION", TRUE)

MainGo(pkg) == GoFile(pkg, <<FuncDecl("main")>>)

TextFile == [kind |-> "text"]

\* hand-written version.go files
LocatorFiles ==
  { Absent, Garbage,
    Generated("main", V100),
    Generated("main", V1100),
    \* const VERSION = "1.2.9"
    GoFile("main", <<GenDecl("const",
       <<ValueSpec(<<"VERSION">>, <<BasicLit(<<Quote>> \o V129 \o <<Quote>>)>>)>>)>>),
    \* var VERSION = "1.0.0"
    GoFile("main", <<GenDecl("var",
       <<ValueSpec(<<"VERSION">>, <<BasicLit(<<Quote>> \o V100 \o <<Quote>>)>>)>>)>>),
    \* const Release = "2.5.7"
    GoFile("main", <<GenDecl("const",
       <<ValueSpec(<<"Release">>, <<BasicLit(<<Quote>> \o V257 \o <<Quote>>)>>)>>)>>),
    \* import "fmt"; const ( A = "1.0.0"; VERSION = "1.2.9" )
    GoFile("main", <<GenDecl("import", <<[type |-> "ImportSpec"]>>),
       GenDecl("const",
         <<ValueSpec(<<"A">>, <<BasicLit(<<Quote>> \o V100 \o <<Quote>>)>>),
           ValueSpec(<<"VERSION">>, <<BasicLit(<<Quote>> \o V129 \o <<Quote>>)>>)>>)>>),
    \* const VERSION = defaultVersion
    GoFile("main", <<GenDecl("const",
       <<ValueSpec(<<"VERSION">>, <<Ident("defaultVersion")>>)>>)>>),
    \* const VERSION, Release = prefix, "2.5.7"
    GoFile("main", <<GenDecl("const",
       <<ValueSpec(<<"VERSION", "Release">>,
           <<Ident("prefix"), BasicLit(<<Quote>> \o V257 \o <<Quote>>)>>)>>)>>),
    \* const VERSION = a raw (backquoted) string literal 1.0.0
    GoFile("main", <<GenDecl("const",
       <<ValueSpec(<<"VERSION">>, <<BasicLit(<<Backquote>> \o V100 \o <<Backquote>>)>>)>>)>>),
    \* const VERSION = 19
    GoFile("main", <<GenDecl("const",
       <<ValueSpec(<<"VERSION">>, <<BasicLit(<<"1", "9">>)>>)>>)>>),
    \* const VERSION = the empty string literal
    GoFile("main", <<GenDecl("const",
       <<ValueSpec(<<"VERSION">>, <<BasicLit(<<Quote, Quote>>)>>)>>)>>),
    \* type T int; func main() {}
    GoFile("main", <<GenDecl("type", <<[type |-> "TypeSpec"]>>), FuncDecl("main")>>),
    \* a file with no declaration
    GoFile("main", <<>>) }

\* version.go files of the working directory in the runs of the tool
RunFiles ==
  { Absent, Garbage, Generated("main", V199), Generated("main", V1100),
    GoFile("main", <<GenDecl("var",
       <<ValueSpec(<<"VERSION">>, <<BasicLit(<<Quote>> \o V100 \o <<Quote>>)>>)>>)>>) }

\* a file system: the working directory holds README.md, main.go or not, and
\* version.go; sub holds one source file of package sub, and version.go
FileSystem(mainGo, versionGo, subSource, subVersionGo) ==
  [k \in FileKeys |->
     CASE k = <<"README.md">> -> TextFile
       [] k = <<"main.go">> -> mainGo
       [] k = <<"version.go">> -> versionGo
       [] k = <<"sub", subSource>> -> MainGo("sub")
       [] k = <<"sub", "version.go">> -> subVersionGo
       [] OTHER -> Absent]

FileSystems ==
  { FileSystem(m, v, src, sv) :
      m \in {Absent, MainGo("main")},
      v \in RunFiles,
      src \in {"main.go", "lib.go"},
      sv \in {Absent, Generated("sub", V257)} }

InputDirs == {<<".">>, <<"sub">>}

PathArgs == UNION {[1..k -> InputDirs] : k \in 0..MaxPaths}

NoCall == [op |-> "none", mode |-> "PATCH"]
NoPrev == [op |-> "none", paths |-> <<>>, out |-> <<>>, ret |-> Nil,
           status |-> "idle"]
NoArg == [fn |-> "none"]
NoRes == [version |-> <<>>, err |-> Nil]

-----------------------------------------------------------------------------
(* The tool *)

\* main, lines 50-54: no path means the current directory
defaultPaths(paths) == IF paths = <<>> THEN <<<<".">>>> ELSE paths

Init ==
  /\ fs \in FileSystems
  /\ variable = "VERSION"
  /\ lazyInit \in BOOLEAN
  /\ \E paths \in PathArgs : inputPaths = defaultPaths(paths)
  /\ call = NoCall
  /\ status = "idle"
  /\ i = 1
  /\ ret = Nil
  /\ out = <<>>
  /\ trace = <<>>
  /\ fs0 = fs
  /\ prev = NoPrev
  /\ calls = 0
  /\ arg = NoArg
  /\ res = NoRes

\* what the invocation did, in order: the Locator's read of a version file
\* ("locate"), the Incrementer's call ("increment"), the write of the output
\* file ("write"), log.Fatalf ("fatal"); err is the error the step returned
Event(pos, kind, file, err) ==
  [pos |-> pos, kind |-> kind, file |-> file, err |-> err]

\* one invocation of the command: main up to the call of run or
\* printCurrentVersion (op "print" is the flag --toolVersion)
Start(op, mode, limit) ==
  /\ status # "running"
  /\ calls < limit
  /\ prev' = IF status = "idle" THEN prev
             ELSE [op |-> call.op, paths |-> inputPaths, out |-> out,
                   ret |-> ret, status |-> status]
  /\ call' = [op |-> op, mode |-> mode]
  /\ status' = "running"
  /\ i' = 1
  /\ ret' = Nil
  /\ out' = <<>>
  /\ trace' = <<>>
  /\ fs0' = fs
  /\ calls' = calls + 1
  /\ UNCHANGED <<fs, variable, lazyInit, inputPaths, arg, res>>

\* the flag the Locator runs with in the read-only mode, mistaken for --init
locateForPrintWithInit(fsys, var, path) ==
  getCurrentVersionOf(fsys, var, path, lazyInit)

\* printCurrentVersion's call getCurrentVersion(path, false)
locateForPrint(fsys, var, path) == getCurrentVersionOf(fsys, var, path, FALSE)

\* one iteration of printCurrentVersion's loop, and its return
PrintStep ==
  /\ status = "running"
  /\ call.op = "print"
  /\ LET path == inputPaths[i]
         cur == locateForPrint(fs, variable, path)
         located == Event(i, "locate", Key(Join(path, "version.go")), cur.err)
     IN /\ trace' = Append(trace, located)
        /\ IF cur.err # Nil
           THEN /\ ret' = cur.err
                /\ status' = "returned"
                /\ UNCHANGED <<out, i>>
           ELSE /\ out' = Append(out, cur.version)
                /\ i' = i + 1
                /\ status' = IF i = Len(inputPaths) THEN "returned"
                                                    ELSE "running"
                /\ ret' = Nil
  /\ UNCHANGED <<fs, variable, lazyInit, inputPaths, call, fs0, prev, calls,
                 arg, res>>

Iteration(kind, err, events, fsys) ==
  [kind |-> kind, err |-> err, events |-> events, fs |-> fsys]

\* the body of the loop without the check of getNextVersion's error
\* (lines 91-93): the empty version is rendered and written
runIterationUnchecked(fsys, var, path, mode, lazy, pos) ==
  LET cur == getCurrentVersionOf(fsys, var, path, lazy)
      nextDevVersion == getNextVersion(cur.version, mode)
      header == writeHeader
      pkg == parsePackage(fsys, path)
      output == Key(outputOf(path))
      located == Event(pos, "locate", Key(Join(path, "version.go")), cur.err)
      incremented == Event(pos, "increment", <<>>, nextDevVersion.err)
  IN IF cur.err # Nil
     THEN Iteration("error", cur.err, <<located>>, fsys)
     ELSE IF header.err # Nil
     THEN Iteration("error", header.err, <<located, incremented>>, fsys)
     ELSE IF pkg.fatal
     THEN Iteration("fatal", Nil,
                    <<located, incremented, Event(pos, "fatal", <<>>, Nil)>>,
                    fsys)
     ELSE Iteration("written", Nil,
                    <<located, incremented, Event(pos, "write", output, Nil)>>,
                    [fsys EXCEPT ![output] =
                       generateContent(pkg.pkg, nextDevVersion.version, var,
                                       header.header)])

\* the body of run's loop for one path: Locator, Incrementer, header, Package
\* Namer, Renderer, ioutil.WriteFile
runIteration(fsys, var, path, mode, lazy, pos) ==
  LET cur == getCurrentVersionOf(fsys, var, path, lazy)
      nextDevVersion == getNextVersion(cur.version, mode)
      header == writeHeader
      pkg == parsePackage(fsys, path)
      output == Key(outputOf(path))
      located == Event(pos, "locate", Key(Join(path, "version.go")), cur.err)
      incremented == Event(pos, "increment", <<>>, nextDevVersion.err)
  IN IF cur.err # Nil
     THEN Iteration("error", cur.err, <<located>>, fsys)
     ELSE IF nextDevVersion.err # Nil
     THEN Iteration("error", nextDevVersion.err, <<located, incremented>>, fsys)
     ELSE IF header.err # Nil
     THEN Iteration("error", header.err, <<located, incremented>>, fsys)
     ELSE IF pkg.fatal
     THEN Iteration("fatal", Nil,
                    <<located, incremented, Event(pos, "fatal", <<>>, Nil)>>,
                    fsys)
     ELSE Iteration("written", Nil,
                    <<located, incremented, Event(pos, "write", output, Nil)>>,
                    [fsys EXCEPT ![output] =
                       generateContent(pkg.pkg, nextDevVersion.version, var,
                                       header.header)])

\* one iteration of run's loop, and its return
RunStep ==
  /\ status = "running"
  /\ call.op = "run"
  /\ LET it == runIteration(fs, variable, inputPaths[i], call.mode, lazyInit, i)
     IN /\ trace' = trace \o it.events
        /\ fs' = it.fs
        /\ ret' = it.err
        /\ i' = IF it.kind = "written" THEN i + 1 ELSE i
        /\ status' = CASE it.kind = "error" -> "returned"
                       [] it.kind = "fatal" -> "fatal"
                       [] OTHER -> IF i = Len(inputPaths) THEN "returned"
                                                          ELSE "running"
  /\ UNCHANGED <<variable, lazyInit, inputPaths, call, out, fs0, prev, calls,
                 arg, res>>

Next ==
  \/ \E mode \in Modes : Start("run", mode, MaxCalls)
  \/ Start("print", "PATCH", MaxCalls)
  \/ RunStep
  \/ PrintStep

Spec == Init /\ [][Next]_vars

-----------------------------------------------------------------------------
(* getNextVersion called on its own *)

\* the variables of the tool, at rest
Idle ==
  /\ variable = "VERSION"
  /\ lazyInit = FALSE
  /\ inputPaths = <<<<".">>>>
  /\ call = NoCall
  /\ status = "idle"
  /\ i = 1
  /\ ret = Nil
  /\ out = <<>>
  /\ trace = <<>>
  /\ prev = NoPrev
  /\ calls = 0

InitIncrementer ==
  /\ Idle
  /\ fs = FileSystem(Absent, Absent, "main.go", Absent)
  /\ fs0 = fs
  /\ \E version \in VersionInputs, mode \in Modes :
       arg = [fn |-> "getNextVersion", version |-> version, mode |-> mode]
  /\ res = NoRes

CallGetNextVersion ==
  /\ status = "idle"
  /\ arg.fn = "getNextVersion"
  /\ res' = getNextVersion(arg.version, arg.mode)
  /\ status' = "returned"
  /\ UNCHANGED <<fs, variable, lazyInit, inputPaths, call, i, ret, out, trace,
                 fs0, prev, calls, arg>>

NextIncrementer == CallGetNextVersion

SpecIncrementer == InitIncrementer /\ [][NextIncrementer]_vars

-----------------------------------------------------------------------------
(* getCurrentVersion called on its own *)

VariableNames == {"VERSION", "Release"}

InitLocator ==
  /\ \E path \in InputDirs, lazy \in BOOLEAN, file \in LocatorFiles :
       /\ arg = [fn |-> "getCurrentVersion", path |-> path, lazy |-> lazy]
       /\ fs = IF path = <<".">>
               THEN FileSystem(MainGo("main"), file, "main.go", Absent)
               ELSE FileSystem(MainGo("main"), Absent, "main.go", file)
  /\ variable \in VariableNames
  /\ lazyInit = FALSE
  /\ inputPaths = <<<<".">>>>
  /\ call = NoCall
  /\ status = "idle"
  /\ i = 1
  /\ ret = Nil
  /\ out = <<>>
  /\ trace = <<>>
  /\ prev = NoPrev
  /\ calls = 0
  /\ fs0 = fs
  /\ res = NoRes

\* getCurrentVersion has no statement that writes: the file system is left
\* as it is
CallGetCurrentVersion ==
  /\ status = "idle"
  /\ arg.fn = "getCurrentVersion"
  /\ res' = getCurrentVersionOf(fs, variable, arg.path, arg.lazy)
  /\ status' = "returned"
  /\ UNCHANGED <<fs, variable, lazyInit, inputPaths, call, i, ret, out, trace,
                 fs0, prev, calls, arg>>

NextLocator == CallGetCurrentVersion

SpecLocator == InitLocator /\ [][NextLocator]_vars

-----------------------------------------------------------------------------
(* go generate: the tool run again and again on the current directory *)

InitSeq ==
  /\ Idle
  /\ fs = FileSystem(MainGo("main"), Generated("main", V100), "main.go", Absent)
  /\ fs0 = fs
  /\ arg = NoArg
  /\ res = NoRes

NextSeq ==
  \/ \E mode \in Modes : Start("run", mode, MaxSeqCalls)
  \/ RunStep

SpecSeq == InitSeq /\ [][NextSeq]_vars

-----------------------------------------------------------------------------
(* What the documentation says, in its own terms *)

\* the groups of s between its dots
RECURSIVE SplitDots(_)
SplitDots(s) ==
  LET dots == {k \in 1..Len(s) : s[k] = Dot}
  IN IF dots = {} THEN <<s>>
     ELSE LET d == CHOOSE k \in dots : \A m \in dots : k <= m
          IN <<Slice(s, 1, d - 1)>> \o SplitDots(Slice(s, d + 1, Len(s)))

\* s matches ^\d+\.\d+\.\d+$ in full
IsSemVer(s) ==
  LET g == SplitDots(s)
  IN Len(g) = 3 /\ \A k \in 1..3 : g[k] # <<>> /\ AllDigits(g[k])

\* the integer triple (major, minor, patch) of a version string
Triple(s) == [k \in 1..3 |-> DecimalValue(SplitDots(s)[k])]

Render(t) == Itoa(t[1]) \o <<Dot>> \o Itoa(t[2]) \o <<Dot>> \o Itoa(t[3])

\* the selected component incremented, the other two unchanged
Bumped(t, mode) ==
  [k \in 1..3 |-> IF k = (CASE mode = "MAJOR" -> 1 [] mode = "MINOR" -> 2
                            [] OTHER -> 3)
                  THEN t[k] + 1 ELSE t[k]]

TripleLess(t, u) ==
  \/ t[1] < u[1]
  \/ t[1] = u[1] /\ t[2] < u[2]
  \/ t[1] = u[1] /\ t[2] = u[2] /\ t[3] < u[3]

\* the version file of a directory
VersionFileOf(path) == Key(path) \o <<"version.go">>

\* the file declares a constant of that name
DeclaresConst(file, name) ==
  \E d \in Range(file.Decls) :
    /\ d.type = "GenDecl"
    /\ d.Tok = "const"
    /\ \E sp \in Range(d.Specs) :
         sp.type = "ValueSpec" /\ name \in Range(sp.Names)

\* the .go files of a directory, in name order
GoNamesIn(fsys, dir) ==
  SelectSeq(NameOrder,
            LAMBDA n : HasGoSuffix(n) /\ fsys[dir \o <<n>>].kind # "absent")

Ended == status \in {"returned", "fatal"}

NextVersionCalled == status = "returned" /\ arg.fn = "getNextVersion"

CurrentVersionCalled == status = "returned" /\ arg.fn = "getCurrentVersion"

-----------------------------------------------------------------------------
(* Claims *)

\* C1: for every version string M.N.P of non-negative decimal integers of any
\* number of digits, getNextVersion returns no error and the string with the
\* component the mode selects incremented and the other two unchanged.
C1_NextVersionOfEveryTriple ==
  (NextVersionCalled /\ IsSemVer(arg.version)) =>
     res = [version |-> Render(Bumped(Triple(arg.version), arg.mode)),
            err |-> Nil]

\* C2: for every string that does not match ^\d+\.\d+\.\d+$ in full,
\* getNextVersion returns a FormatError that carries the offending string, and
\* the empty string as the version.
C2_MalformedIsFormatError ==
  (NextVersionCalled /\ ~IsSemVer(arg.version)) =>
     /\ res.version = <<>>
     /\ res.err.kind = "FormatError"
     /\ res.err.version = arg.version

C2_Witness ==
  /\ NextVersionCalled
  /\ arg.version = <<"1", ".", "x", ".", "0">>
  /\ res.err.kind = "FormatError"

\* C3: the tool run with --init and the default mode PATCH on a directory
\* without version.go produces a version.go whose VERSION constant is 1.0.0.
C3_InitWritesOneZeroZero ==
  ( /\ Ended
    /\ call = [op |-> "run", mode |-> "PATCH"]
    /\ lazyInit
    /\ inputPaths = <<<<".">>>>
    /\ fs0[<<"version.go">>] = Absent
    /\ fs0[<<"main.go">>] # Absent ) =>
     /\ fs[<<"version.go">>].kind = "go"
     /\ getCurrentVersionOf(fs, "VERSION", <<".">>, FALSE) =
          [version |-> V100, err |-> Nil]

\* C4: when the version file of the directory cannot be found or parsed,
\* getCurrentVersion returns 1.0.0 and no error if initialization is requested,
\* an error and the empty version if not; no file is modified.
C4_MissingFile ==
  (CurrentVersionCalled /\ fs0[VersionFileOf(arg.path)].kind # "go") =>
     /\ IF arg.lazy
        THEN res = [version |-> V100, err |-> Nil]
        ELSE res.version = <<>> /\ res.err # Nil
     /\ fs = fs0

C4_Witness ==
  /\ CurrentVersionCalled
  /\ arg.lazy
  /\ arg.path = <<"sub">>
  /\ fs0[VersionFileOf(arg.path)] = Garbage
  /\ res.version = V100

\* C5: when the version file parses and declares no constant of the requested
\* name, getCurrentVersion returns a NotFound error naming the constant and the
\* file, with or without the initialization flag; never the default 1.0.0.
C5_MissingConstant ==
  ( /\ CurrentVersionCalled
    /\ fs0[VersionFileOf(arg.path)].kind = "go"
    /\ ~DeclaresConst(fs0[VersionFileOf(arg.path)], variable) ) =>
     /\ res.version = <<>>
     /\ res.err.kind = "NotFound"
     /\ res.err.variable = variable
     /\ Key(res.err.file) = VersionFileOf(arg.path)

C5_Witness ==
  /\ CurrentVersionCalled
  /\ arg.lazy
  /\ fs0[VersionFileOf(arg.path)].kind = "go"
  /\ ~DeclaresConst(fs0[VersionFileOf(arg.path)], variable)
  /\ res.err.kind = "NotFound"

EventsAt(pos, kind) ==
  {k \in 1..Len(trace) : trace[k].pos = pos /\ trace[k].kind = kind}

\* the positions at which the Locator or the Incrementer returned an error
FailedAt ==
  {p \in 1..Len(inputPaths) :
     \E k \in EventsAt(p, "locate") \cup EventsAt(p, "increment") :
        trace[k].err # Nil}

\* C6: in run, if the Locator or the Incrementer returns an error for the path
\* at position p, no file is written for that path, no later path is read or
\* written, run returns that error, and every path before p has been processed
\* exactly once.
C6_ErrorStopsTheRun ==
  call.op = "run" =>
    \A p \in FailedAt :
      /\ EventsAt(p, "write") = {}
      /\ \A k \in 1..Len(trace) : trace[k].pos <= p
      /\ status = "returned"
      /\ ret # Nil
      /\ ret = trace[Len(trace)].err
      /\ \A q \in 1..(p - 1) :
           /\ Cardinality(EventsAt(q, "locate")) = 1
           /\ Cardinality(EventsAt(q, "increment")) = 1
           /\ Cardinality(EventsAt(q, "write")) = 1
      /\ Cardinality(EventsAt(p, "locate")) = 1
      /\ (p = 1 => fs = fs0)

C6_Witness ==
  /\ call.op = "run"
  /\ status = "returned"
  /\ 2 \in FailedAt
  /\ ret.kind = "FormatError"
  /\ fs # fs0

\* C7: the read-only mode never writes a file, runs the Locator with
\* initialization disabled, and run twice in a row on the same paths gives the
\* same output or the same error.
C7_PrintIsReadOnly ==
  call.op = "print" =>
    /\ fs = fs0
    /\ (status = "returned" =>
          /\ (\E k \in 1..Len(inputPaths) :
                fs[VersionFileOf(inputPaths[k])].kind # "go") => ret # Nil
          /\ (prev.op = "print" /\ prev.paths = inputPaths) =>
                (out = prev.out /\ ret = prev.ret))

C7_Witness ==
  /\ call.op = "print"
  /\ status = "returned"
  /\ prev.op = "print"
  /\ lazyInit
  /\ Len(out) = 1
  /\ ret.kind = "ParseError"

\* C8: after run succeeds on a directory path (the current directory or a
\* sub-directory), the version file the Locator reads for that path holds the
\* new declaration, so that getCurrentVersion on the path returns the next
\* version the run computed, and no other version.go has been written.
C8_RunReplacesTheFileItRead ==
  ( /\ status = "returned"
    /\ call.op = "run"
    /\ ret = Nil
    /\ Len(inputPaths) = 1 ) =>
     LET path == inputPaths[1]
         before == getCurrentVersionOf(fs0, variable, path, lazyInit)
         computed == getNextVersion(before.version, call.mode)
     IN /\ getCurrentVersionOf(fs, variable, path, FALSE) =
             [version |-> computed.version, err |-> Nil]
        /\ \A k \in FileKeys : k # VersionFileOf(path) => fs[k] = fs0[k]

\* C9: from a version file holding 1.0.0 in the current directory, every run
\* of a sequence of runs, in any mode, succeeds and leaves a version strictly
\* greater, as an integer triple, than the one the file held before the run.
C9_EveryRunIncreases ==
  (Ended /\ call.op = "run") =>
     /\ status = "returned"
     /\ ret = Nil
     /\ LET before == getCurrentVersionOf(fs0, variable, <<".">>, FALSE)
            after == getCurrentVersionOf(fs, variable, <<".">>, FALSE)
        IN /\ after.err = Nil
           /\ IsSemVer(after.version)
           /\ TripleLess(Triple(before.version), Triple(after.version))

\* C10: for every input directory whose first .go file parses, whatever the
\* working directory, the file run renders declares the package of that first
\* file; the process is terminated only if the directory holds no .go file or
\* its first source file does not parse.
C10_PackageOfFirstGoFile ==
  ( /\ Ended
    /\ call.op = "run"
    /\ Len(inputPaths) = 1
    /\ FailedAt = {} ) =>
     LET dir == Key(inputPaths[1])
         names == GoNamesIn(fs0, dir)
     IN (names # <<>> /\ fs0[dir \o <<names[1]>>].kind = "go") =>
           /\ status = "returned"
           /\ EventsAt(1, "write") # {}
           /\ \A k \in EventsAt(1, "write") :
                fs[trace[k].file].pkg = fs0[dir \o <<names[1]>>].pkg

====
